---- MODULE Spec2Model ----
(***************************************************************************)
(* TradePulse-HFT backend (src/backend/main.py): the market listener       *)
(* listen_to_crypto_market, the rolling window price_history, the          *)
(* analytics function calculate_anomaly and the ConnectionManager that     *)
(* broadcasts each enriched tick to the connected websocket clients.       *)
(*                                                                         *)
(* Prices and quantities are whole numbers (the code holds them as         *)
(* float64, in which these values, their sums and their products are       *)
(* exact).  The mean and the standard deviation are kept as exact          *)
(* fractions and squares, so the comparisons are those of real arithmetic. *)
(* Values the code rounds to two decimals (z_score, mean_price) are held   *)
(* in hundredths.  Prices with cents, for which float64 arithmetic rounds, *)
(* have their own section and specification (SpecFloat).                   *)
(*                                                                         *)
(* Also modelled: SimpleRateLimiter (src/backend/rate_limiter.py) and the  *)
(* execute_trade endpoint with the in-memory portfolio.                    *)
(***************************************************************************)
EXTENDS Integers, Sequences, FiniteSets, TLC

(***************************************************************************)
(* Program constants.                                                      *)
(***************************************************************************)
\* price_history = deque(maxlen=100)
MaxLen == 100
\* if len(price_history) < 20
MinSamples == 20
\* is_whale = volume > 50000
WhaleThreshold == 50000
\* round(z_score, 2), round(mean, 2): two decimals, i.e. hundredths
Hundredths == 100
\* portfolio["usd"] = 100000.0, in tenths of a dollar
InitialUsd == 1000000
\* amount = 0.1, in tenths of a coin
TradeAmount == 1

(***************************************************************************)
(* Bounds of the model.                                                    *)
(***************************************************************************)
\* websocket clients that may connect to /ws/stream
MaxSubs == 2
\* upstream messages read by the listener in the concurrent specification
MaxMsgs == 2
\* ticks read in the window specification (more than MaxLen, so eviction happens)
MaxWindowTicks == 102
\* ticks read in the classifier specification (more than MinSamples)
MaxClassifyTicks == 21
\* times the tick price differs from the previous tick's price (classifier specification)
MaxChanges == 1
\* the tick price may change every WindowRun ticks (window specification)
WindowRun == 20

\* websocket clients in the broadcast specification
MaxBcastSubs == 3
\* ticks read in the broadcast specification
MaxBcastMsgs == 1
\* websocket clients and upstream messages in the shutdown specification
MaxLiveSubs == 1
MaxLiveMsgs == 1
\* ticks read in the float64 specification (more than MinSamples)
MaxFloatTicks == 21
\* ticks read in the whale specification (fewer than MinSamples)
MaxWhaleTicks == 2
\* the limiter under check is SimpleRateLimiter(max_calls, time_window)
max_calls == 2
time_window == 2
\* time.time() runs from 0 to MaxTime
MaxTime == 4
\* execute_trade requests that are accepted
MaxTrades == 3

Subs == 1..MaxSubs
BcastSubs == 1..MaxBcastSubs
LiveSubs == 1..MaxLiveSubs
\* client IPs seen by the rate limiter
Ips == {1, 2}

\* tick prices of the three specifications
MainPrices == {60000}
WindowPrices == {100, 101}
ClassifyPrices == {90, 100, 110, 300}
\* current_price arguments of direct calls of calculate_anomaly
CallPrices == {75, 80, 120, 125, 300}
\* tick quantities
Quantities == {1}
\* tick prices of the float64 specification, as the feed writes them, in cents:
\* "65536.01", "67123.45", "67123.50", "70000.10", "99999.99", "100000.07"
F64Texts == {6553601, 6712345, 6712350, 7000010, 9999999, 10000007}
\* tick prices and quantities of the whale specification: the volumes are 49999,
\* 50000, 60000 and their doubles, and 50000 also as 25000 * 2
WhalePrices == {25000, 49999, 50000, 60000}
WhaleQuantities == {1, 2}
\* the query parameters of /trade/execute: type is any string, price any float
TradeTypes == {"BUY", "SELL", "HOLD"}
TradePrices == {-3000000, 60000, 2000000}

VARIABLES
    pc,                 \* where the listener task is: "connect", "recv", "send", "sleep", "cancelled", "crashed"
    ws,                 \* the upstream connection: "none", "open", "dropped", "closed"
    cancel,             \* lifespan's task.cancel(): "none", "pending", "delivered", "ignored"
    msgs,               \* upstream messages read so far (also the clock of datetime.now())
    exc,                \* the exception last raised in the task ("none": none since the last wake-up)
    price_history,      \* the deque of recent prices
    pushed,             \* history: every price ever appended to price_history
    current_price,      \* argument of the last calculate_anomaly call
    stats,              \* result of the last calculate_anomaly call
    caller,             \* who made that call: "none", "tick" (the listener), "call" (direct)
    payload,            \* the message of the last broadcast
    active_connections, \* manager.active_connections, a list
    client,             \* per client: "new", "open", "full", "closed", "done"
    received,           \* per client: the messages its transport took, in order
    idx,                \* the list iterator of broadcast's for loop: elements consumed
    conn,               \* the connection whose send_json broadcast awaits (0: none)
    bstate,             \* last broadcast: "idle", "running", "returned", "raised"
    bsubs,              \* history: active_connections when that broadcast was called
    bfail,              \* history: the connection whose send_json raised in it (0: none)
    dcall,              \* the last direct call manager.disconnect(c): c, the list before and after, what it raised
    client_history,     \* SimpleRateLimiter.client_history: client IP -> list of timestamps
    clock,              \* time.time()
    admitted,           \* history: per client IP, the timestamps of its admitted requests
    verdict,            \* the last rate limiter call: IP, time, status; before it: the dict, the IP's admitted
    portfolio,          \* the in-memory ledger: usd in tenths of a dollar, btc in tenths of a coin
    session,            \* trade records added to a database session and not yet committed
    trades,             \* the committed trade records, in commit order
    response            \* the last execute_trade request: arguments, outcome, ledger before it

vars == <<pc, ws, cancel, msgs, exc, price_history, pushed, current_price, stats, caller,
          payload, active_connections, client, received, idx, conn, bstate, bsubs, bfail,
          dcall, client_history, clock, admitted, verdict, portfolio, session, trades,
          response>>

feedVars == <<pc, ws, cancel, msgs>>
windowVars == <<price_history, pushed>>
statVars == <<current_price, stats, caller>>
subVars == <<active_connections, client>>
bcastVars == <<idx, conn, bstate, bsubs, bfail>>
limiterVars == <<client_history, clock, admitted, verdict>>
tradeVars == <<portfolio, session, trades, response>>
\* what the listener, the broadcast and the websocket endpoint never touch
apiVars == <<dcall, limiterVars, tradeVars>>

(***************************************************************************)
(* Helpers.                                                                *)
(***************************************************************************)
Range(s) == {s[i] : i \in DOMAIN s}

Min(a, b) == IF a < b THEN a ELSE b

\* the last n elements of s
LastN(s, n) == SubSeq(s, Len(s) - n + 1, Len(s))

\* number of places where consecutive elements differ
Changes(s) == Cardinality({i \in 1..(Len(s) - 1) : s[i] # s[i + 1]})

\* floor of the square root, by bisection on lo..hi (lo*lo <= x < (hi+1)*(hi+1))
RECURSIVE ISqrtIn(_, _, _)
ISqrtIn(x, lo, hi) ==
    IF lo >= hi THEN lo
    ELSE LET mid == (lo + hi + 1) \div 2
         IN  IF mid * mid <= x THEN ISqrtIn(x, mid, hi) ELSE ISqrtIn(x, lo, mid - 1)

ISqrt(x) == ISqrtIn(x, 0, Min(x, 46340))

\* round(a / b) for b > 0, ties to the even neighbour (Python's and NumPy's round)
RoundDiv(a, b) ==
    LET q == a \div b
        r2 == 2 * (a % b)
    IN  IF r2 < b THEN q
        ELSE IF r2 > b THEN q + 1
        ELSE IF q % 2 = 0 THEN q ELSE q + 1

(***************************************************************************)
(* price_history = deque(maxlen=100); price_history.append(price)          *)
(***************************************************************************)
\* faulty variant: a full deque discards its newest item instead of its oldest
DequeAppend_PopRight(d, x) ==
    IF Len(d) >= MaxLen THEN Append(SubSeq(d, 1, Len(d) - 1), x) ELSE Append(d, x)

\* a bounded deque that is full discards one item from the opposite (left) end
DequeAppend(d, x) ==
    IF Len(d) >= MaxLen THEN Append(Tail(d), x) ELSE Append(d, x)

(***************************************************************************)
(* calculate_anomaly                                                       *)
(***************************************************************************)
\* w[1] + ... + w[i]
RECURSIVE SumTo(_, _)
SumTo(w, i) == IF i = 0 THEN 0 ELSE w[i] + SumTo(w, i - 1)

\* np.mean(data) = NpSum(w) / Len(w); the model keeps numerator and denominator
NpSum(w) == SumTo(w, Len(w))

\* sum over the first i items of (n * w[j] - s)^2: with n = Len(w), s = NpSum(w)
\* this is n^2 times the sum of squared deviations from the mean
RECURSIVE SqDevTo(_, _, _, _)
SqDevTo(w, n, s, i) ==
    IF i = 0 THEN 0
    ELSE (n * w[i] - s) * (n * w[i] - s) + SqDevTo(w, n, s, i - 1)

\* np.std(data) is the population standard deviation sqrt(mean(|x - mean|^2)).
\* With n = Len(w) and s = NpSum(w), calculate_anomaly below keeps
\*   d = SqDevTo(w, n, s, n) / n = (n * std_dev)^2   (an integer) and
\*   a = n * current_price - s   = n * (current_price - mean),
\* so that z_score = (current_price - mean) / std_dev = a / sqrt(d).

\* the 2.0 of the two comparisons
ZThreshold == 2

\* faulty variant: z_score >= 2.0
ZAbove_Inclusive(a, d) == a > 0 /\ a * a >= ZThreshold * ZThreshold * d

\* z_score > 2.0
ZAbove(a, d) == a > 0 /\ a * a > ZThreshold * ZThreshold * d

\* z_score < -2.0
ZBelow(a, d) == a < 0 /\ a * a > ZThreshold * ZThreshold * d

\* stand-ins for the float64 values inf and nan among the hundredths
FloatInf == 2147483647
FloatNan == 2147483646

\* round(z_score, 2) in hundredths.  With y = 100 |a| / sqrt(d),
\* floor(2 y) = ISqrt(t) for t = floor(40000 a^2 / d), which is computed 200-fold
\* at a time to stay in the 32-bit range; a tie (2 y an odd integer) goes to the
\* even neighbour.  Needs 0 < d < 10^7 and |a / sqrt(d)| < 231.
\* With d = 0 the float64 division gives inf, -inf or nan (no exception), which
\* round() returns as it is.
RoundZ(a, d) ==
    IF d = 0 THEN (IF a > 0 THEN FloatInf ELSE IF a < 0 THEN -FloatInf ELSE FloatNan)
    ELSE
    LET sq == a * a
        x1 == 2 * Hundredths * (sq % d)
        x2 == 2 * Hundredths * (x1 % d)
        t == 4 * Hundredths * Hundredths * (sq \div d)
               + 2 * Hundredths * (x1 \div d) + (x2 \div d)
        r == ISqrt(t)
        tie == r % 2 = 1 /\ r * r = t /\ x2 % d = 0
        k == IF r % 2 = 0 THEN r \div 2
             ELSE IF tie /\ ((r - 1) \div 2) % 2 = 0 THEN (r - 1) \div 2
             ELSE (r + 1) \div 2
    IN  IF a < 0 THEN -k ELSE k

\* faulty variant: if len(price_history) <= 20
Calibrating_Inclusive(w) == Len(w) <= MinSamples

\* if len(price_history) < 20
Calibrating(w) == Len(w) < MinSamples

\* faulty variant: the std_dev == 0 test is missing
StdDevIsZero_Never(d) == FALSE

\* if std_dev == 0
StdDevIsZero(d) == d = 0

\* status = "NORMAL"; if z_score > 2.0: ...; elif z_score < -2.0: ...
Status(a, d) ==
    IF ZAbove(a, d) THEN "PUMP_DETECTED"
    ELSE IF ZBelow(a, d) THEN "DUMP_DETECTED"
    ELSE "NORMAL"

\* calculate_anomaly(current_price), reading the global price_history = w
calculate_anomaly(w, p) ==
    IF Calibrating(w)
    THEN [status |-> "CALIBRATING", z_score |-> 0, mean_price |-> Hundredths * p]
    ELSE LET n == Len(w)
             s == NpSum(w)
             d == SqDevTo(w, n, s, n) \div n
             a == n * p - s
         IN  IF StdDevIsZero(d)
             \* all items are equal, so the mean is that item, unrounded
             THEN [status |-> "STABLE", z_score |-> 0,
                   mean_price |-> (Hundredths * s) \div n]
             ELSE [status |-> Status(a, d),
                   z_score |-> RoundZ(a, d),
                   mean_price |-> RoundDiv(Hundredths * s, n)]

NoStats == [status |-> "NONE", z_score |-> 0, mean_price |-> 0]

(***************************************************************************)
(* float64 prices with cents.  A price such as 67123.45 is not a binary    *)
(* fraction: float() rounds it to 53 significant bits, and so does every   *)
(* addition and division of numpy.  The prices here lie in [2^16, 2^17),   *)
(* where float64 values are the whole multiples of 2^-36 up to 2^53 of     *)
(* them; a value is held as that whole number, written in limbs of 18 bits,*)
(* lowest limb first.                                                      *)
(***************************************************************************)
LimbBits == 18
LimbBase == 262144
\* float64 has 53 significant bits
F64Bits == 53
\* numpy's pairwise sum adds in 8 lanes
NpLanes == 8

\* the i-th limb of a
Limb(a, i) == IF i <= Len(a) THEN a[i] ELSE 0

\* a without zero limbs at its top
RECURSIVE BigNorm(_)
BigNorm(a) ==
    IF a # <<>> /\ a[Len(a)] = 0 THEN BigNorm(SubSeq(a, 1, Len(a) - 1)) ELSE a

\* the limbs from the i-th on of a + b + c * LimbBase^(i-1)
RECURSIVE BigAddFrom(_, _, _, _)
BigAddFrom(a, b, i, c) ==
    IF i > Len(a) /\ i > Len(b)
    THEN (IF c = 0 THEN <<>> ELSE <<c>>)
    ELSE LET t == Limb(a, i) + Limb(b, i) + c
         IN  <<t % LimbBase>> \o BigAddFrom(a, b, i + 1, t \div LimbBase)

BigAdd(a, b) == BigAddFrom(a, b, 1, 0)

\* the limbs from the i-th on of a * k + c * LimbBase^(i-1), for k <= 128
RECURSIVE BigMulFrom(_, _, _, _)
BigMulFrom(a, k, i, c) ==
    IF i > Len(a)
    THEN (IF c = 0 THEN <<>> ELSE <<c>>)
    ELSE LET t == a[i] * k + c
         IN  <<t % LimbBase>> \o BigMulFrom(a, k, i + 1, t \div LimbBase)

BigMulInt(a, k) == BigMulFrom(a, k, 1, 0)

\* quotient and remainder of (r * LimbBase^i + the lowest i limbs of a) by n <= 128
RECURSIVE BigDivFrom(_, _, _, _)
BigDivFrom(a, n, i, r) ==
    IF i = 0 THEN [q |-> <<>>, r |-> r]
    ELSE LET t == r * LimbBase + a[i]
             rest == BigDivFrom(a, n, i - 1, t % n)
         IN  [q |-> Append(rest.q, t \div n), r |-> rest.r]

\* a - b as a number, for a and b that are close
RECURSIVE BigDiffFrom(_, _, _)
BigDiffFrom(a, b, i) ==
    IF i > Len(a) /\ i > Len(b) THEN 0
    ELSE (Limb(a, i) - Limb(b, i)) + LimbBase * BigDiffFrom(a, b, i + 1)

BigDiff(a, b) == BigDiffFrom(a, b, 1)

\* the sign of a - b, comparing the limbs from the i-th down
RECURSIVE BigCmpFrom(_, _, _)
BigCmpFrom(a, b, i) ==
    IF i = 0 THEN 0
    ELSE IF Limb(a, i) > Limb(b, i) THEN 1
    ELSE IF Limb(a, i) < Limb(b, i) THEN -1
    ELSE BigCmpFrom(a, b, i - 1)

RECURSIVE BitLen(_)
BitLen(x) == IF x = 0 THEN 0 ELSE 1 + BitLen(x \div 2)

\* number of significant bits of a
BigBits(a) ==
    LET n == BigNorm(a)
    IN  IF n = <<>> THEN 0 ELSE LimbBits * (Len(n) - 1) + BitLen(n[Len(n)])

\* round to nearest, ties to even, at 53 significant bits (up to 17 bits dropped)
F64Round(a) ==
    LET j == BigBits(a) - F64Bits
    IN  IF j <= 0 THEN BigNorm(a)
        ELSE LET unit == 2^j
                 low == a[1] % unit
                 base == [a EXCEPT ![1] = @ - low]
                 up == \/ 2 * low > unit
                       \/ 2 * low = unit /\ (a[1] \div unit) % 2 = 1
             IN  BigNorm(IF up THEN BigAdd(base, <<unit>>) ELSE base)

\* x + y in float64 (<<>> is 0.0)
F64Add(a, b) ==
    IF a = <<>> THEN b
    ELSE IF b = <<>> THEN a
    ELSE F64Round(BigAdd(a, b))

\* x * k in float64, k a small whole number
F64MulInt(a, k) == F64Round(BigMulInt(a, k))

\* x / n in float64, for a quotient in [2^16, 2^17)
F64DivInt(a, n) ==
    LET d == BigDivFrom(a, n, Len(a), 0)
        q == BigNorm(d.q)
    IN  IF 2 * d.r > n \/ (2 * d.r = n /\ q[1] % 2 = 1)
        THEN BigAdd(q, <<1>>)
        ELSE q

\* x > y
F64Gt(a, b) == BigCmpFrom(a, b, IF Len(a) > Len(b) THEN Len(a) ELSE Len(b)) = 1

\* the float64 of a whole number k < LimbBase: k * 2^36
F64OfInt(k) == BigNorm(<<0, 0, k>>)

\* float(data["p"]) for the text of a price given in cents: the float64 nearest
\* to cents / 100
F64Parse(cents) ==
    F64DivInt(<<0, 0, cents % LimbBase, cents \div LimbBase>>, Hundredths)

\* x in hundredths, rounded to the nearest whole number, ties to even:
\* 100 x = hi + lo / 2^36
F64Hundredths(a) ==
    LET c == BigMulInt(a, Hundredths)
        hi == Limb(c, 3) + LimbBase * Limb(c, 4)
        half == LimbBase \div 2
        up == \/ Limb(c, 2) > half
              \/ Limb(c, 2) = half /\ (Limb(c, 1) > 0 \/ hi % 2 = 1)
    IN  IF up THEN hi + 1 ELSE hi

\* r[j] of numpy's pairwise sum after `blocks` rounds of the unrolled loop:
\* a[j] + a[j + 8] + a[j + 16] + ...
RECURSIVE NpLane(_, _, _)
NpLane(a, j, blocks) ==
    IF blocks = 1 THEN a[j]
    ELSE F64Add(NpLane(a, j, blocks - 1), a[j + NpLanes * (blocks - 1)])

\* res += a[i] for the elements from the i-th on
RECURSIVE NpTail(_, _, _)
NpTail(a, res, i) ==
    IF i > Len(a) THEN res ELSE NpTail(a, F64Add(res, a[i]), i + 1)

\* np.add.reduce over a float64 array of fewer than 128 elements: one by one
\* below 8 elements, otherwise 8 lanes, the lanes added pairwise, then the rest
NpSumF64(a) ==
    IF Len(a) < NpLanes THEN NpTail(a, <<>>, 1)
    ELSE LET blocks == Len(a) \div NpLanes
             r(j) == NpLane(a, j, blocks)
             res == F64Add(F64Add(F64Add(r(1), r(2)), F64Add(r(3), r(4))),
                           F64Add(F64Add(r(5), r(6)), F64Add(r(7), r(8))))
         IN  NpTail(a, res, NpLanes * blocks + 1)

\* np.mean(w)
NpMeanF64(w) == F64DivInt(NpSumF64(w), Len(w))

\* the sum of (w[i] - m)^2 for i <= k, in units of 2^-72
RECURSIVE NpSqDevTo(_, _, _)
NpSqDevTo(w, m, k) ==
    IF k = 0 THEN 0
    ELSE BigDiff(w[k], m) * BigDiff(w[k], m) + NpSqDevTo(w, m, k - 1)

\* calculate_anomaly(current_price) on float64 prices.  np.std takes the
\* deviations from the rounded mean; they are exact and small here, so that
\* z = (p - mean) / std = n (p - mean) / sqrt(n * sum of squares) is evaluated
\* as in calculate_anomaly above
calculate_anomaly_f64(w, p) ==
    IF Calibrating(w)
    THEN [status |-> "CALIBRATING", z_score |-> 0, mean_price |-> F64Hundredths(p)]
    ELSE LET n == Len(w)
             mean == NpMeanF64(w)
             d == n * NpSqDevTo(w, mean, n)
             a == n * BigDiff(p, mean)
         IN  IF StdDevIsZero(d)
             THEN [status |-> "STABLE", z_score |-> 0,
                   mean_price |-> F64Hundredths(mean)]
             ELSE [status |-> Status(a, d),
                   z_score |-> RoundZ(a, d),
                   mean_price |-> F64Hundredths(mean)]

(***************************************************************************)
(* listen_to_crypto_market: one tick                                       *)
(***************************************************************************)
\* faulty variant: is_whale = volume >= 50000
IsWhale_Inclusive(volume) == volume >= WhaleThreshold

\* is_whale = volume > 50000
IsWhale(volume) == volume > WhaleThreshold

\* the payload dict; datetime.now() is the count of messages read
Payload(price, qty, st, now) ==
    [price |-> price, stats |-> st, volume |-> price * qty,
     is_whale |-> IsWhale(price * qty), timestamp |-> now]

NoPayload == Payload(0, 0, NoStats, 0)

(***************************************************************************)
(* Exceptions in the listener.  The try block holds ws.recv() and          *)
(* manager.broadcast(); websockets.connect() and the handler's own         *)
(* asyncio.sleep(5) are outside it.                                        *)
(***************************************************************************)
InTry(at) == at \in {"recv", "send"}

\* faulty variant: except BaseException (or a bare except)
CaughtByHandler_All(e) == TRUE

\* except Exception: asyncio.CancelledError derives from BaseException
CaughtByHandler(e) == e # "CancelledError"

\* where the task is after e is raised at the await `at`
AfterRaise(e, at) ==
    IF InTry(at) /\ CaughtByHandler(e) THEN "sleep"
    ELSE IF e = "CancelledError" THEN "cancelled"
    ELSE "crashed"

\* faulty variant: the connection is not closed when the task ends
WsAfterRaise_Leak(e, at, w) == w

\* the upstream connection after e is raised at `at`: an exception that leaves
\* the `async with` block closes the connection it had opened
WsAfterRaise(e, at, w) ==
    IF InTry(at) /\ CaughtByHandler(e) THEN w
    ELSE IF at = "connect" THEN w
    ELSE "closed"

(***************************************************************************)
(* ConnectionManager                                                       *)
(***************************************************************************)
\* self.active_connections.remove(websocket): drops the first occurrence
\* (list.remove raises ValueError when x is absent; disconnect below is only
\* taken for a registered connection)
RECURSIVE ListRemove(_, _)
ListRemove(l, x) ==
    IF l = <<>> THEN <<>>
    ELSE IF Head(l) = x THEN Tail(l)
    ELSE <<Head(l)>> \o ListRemove(Tail(l), x)

\* what self.active_connections.remove(x) raises: list.remove raises ValueError
\* when x is not in the list
RemoveRaises(l, x) == IF x \in Range(l) THEN "none" ELSE "ValueError"

\* the for loop of broadcast asks its list iterator for the next connection:
\* the iterator holds the count i of items consumed and reads the list as it is now
ForHasNext(l, i) == i < Len(l)

\* faulty variant: the iterator does not move past the first connection
ForNextIndex_Stuck(i) == IF i = 0 THEN 1 ELSE i

ForNextIndex(i) == i + 1

\* no direct call of manager.disconnect yet
NoCall == [conn |-> 0, before |-> <<>>, after |-> <<>>, raised |-> "none"]

\* no rate limiter call yet
NoVerdict == [ip |-> 0, at |-> 0, status |-> 0, before |-> <<>>, log |-> <<>>]

\* no execute_trade request yet
NoResponse == [type |-> "none", price |-> 0, detail |-> "none",
               before |-> [usd |-> 0, btc |-> 0], records |-> 0]

\* the listener task created by lifespan, before its first step
InitListener ==
    /\ pc = "connect"
    /\ ws = "none"
    /\ cancel = "none"
    /\ msgs = 0
    /\ exc = "none"
    /\ price_history = <<>>
    /\ pushed = <<>>
    /\ current_price = 0
    /\ stats = NoStats
    /\ caller = "none"
    /\ payload = NoPayload
    /\ idx = 0
    /\ conn = 0
    /\ bstate = "idle"
    /\ bsubs = <<>>
    /\ bfail = 0

\* manager = ConnectionManager(), and the websocket clients that may come
InitManager(handles) ==
    /\ active_connections = <<>>
    /\ client = [s \in handles |-> "new"]
    /\ received = [s \in handles |-> <<>>]
    /\ dcall = NoCall

\* SimpleRateLimiter(max_calls, time_window): self.client_history = {}
InitLimiter ==
    /\ client_history = [ip \in {} |-> <<>>]
    /\ clock = 0
    /\ admitted = [ip \in Ips |-> <<>>]
    /\ verdict = NoVerdict

\* portfolio = {"usd": 100000.0, "btc": 0.0}, and an empty trades table
InitTrade ==
    /\ portfolio = [usd |-> InitialUsd, btc |-> 0]
    /\ session = <<>>
    /\ trades = <<>>
    /\ response = NoResponse

Init == InitListener /\ InitManager(Subs) /\ InitLimiter /\ InitTrade

\* the task may take a step of its own unless a cancellation waits to be delivered
Running == cancel # "pending"

\* async with websockets.connect(url) as ws: the connection opens
ConnectOK ==
    /\ pc = "connect" /\ Running
    /\ ws' = "open"
    /\ pc' = "recv"
    /\ UNCHANGED apiVars
    /\ UNCHANGED <<cancel, msgs, exc, windowVars, statVars, payload, subVars,
                   received, bcastVars>>

\* websockets.connect(url) raises (refused, DNS, handshake): outside the try
ConnectFail ==
    /\ pc = "connect" /\ Running
    /\ exc' = "OSError"
    /\ pc' = AfterRaise("OSError", "connect")
    /\ ws' = WsAfterRaise("OSError", "connect", ws)
    /\ UNCHANGED apiVars
    /\ UNCHANGED <<cancel, msgs, windowVars, statVars, payload, subVars,
                   received, bcastVars>>

\* the upstream closes or loses the connection
UpstreamDrop ==
    /\ ws = "open"
    /\ ws' = "dropped"
    /\ UNCHANGED apiVars
    /\ UNCHANGED <<pc, cancel, msgs, exc, windowVars, statVars, payload, subVars,
                   received, bcastVars>>

\* msg = await ws.recv() returns a trade {"p": price, "q": qty}: lines 99-119 up to
\* the first await inside manager.broadcast(payload)
RecvTick(price, qty) ==
    /\ pc = "recv" /\ ws = "open" /\ Running
    /\ msgs' = msgs + 1
    /\ price_history' = DequeAppend(price_history, price)
    /\ pushed' = Append(pushed, price)
    /\ current_price' = price
    /\ stats' = calculate_anomaly(price_history', price)
    /\ caller' = "tick"
    /\ payload' = Payload(price, qty, stats', msgs')
    /\ bsubs' = active_connections
    /\ bfail' = 0
    /\ IF ForHasNext(active_connections, 0)
       THEN /\ idx' = ForNextIndex(0)
            /\ conn' = active_connections[idx']
            /\ bstate' = "running"
            /\ pc' = "send"
       ELSE /\ idx' = 0
            /\ conn' = 0
            /\ bstate' = "returned"
            /\ pc' = "recv"
    /\ UNCHANGED apiVars
    /\ UNCHANGED <<ws, cancel, exc, subVars, received>>

\* the same step for a trade whose price is written with cents, {"p": "67123.45",
\* "q": "1"}: price, volume and the window hold float64 values
RecvTickF64(text, qty) ==
    LET price == F64Parse(text)
        volume == F64MulInt(price, qty)
    IN  /\ pc = "recv" /\ ws = "open" /\ Running
        /\ msgs' = msgs + 1
        /\ price_history' = DequeAppend(price_history, price)
        /\ pushed' = Append(pushed, price)
        /\ current_price' = price
        /\ stats' = calculate_anomaly_f64(price_history', price)
        /\ caller' = "tick"
        /\ payload' = [price |-> price, stats |-> stats', volume |-> volume,
                       is_whale |-> F64Gt(volume, F64OfInt(WhaleThreshold)),
                       timestamp |-> msgs']
        /\ bsubs' = active_connections
        /\ bfail' = 0
        /\ IF ForHasNext(active_connections, 0)
           THEN /\ idx' = ForNextIndex(0)
                /\ conn' = active_connections[idx']
                /\ bstate' = "running"
                /\ pc' = "send"
           ELSE /\ idx' = 0
                /\ conn' = 0
                /\ bstate' = "returned"
                /\ pc' = "recv"
        /\ UNCHANGED apiVars
        /\ UNCHANGED <<ws, cancel, exc, subVars, received>>

\* a message that is JSON without "p": the if is skipped, the loop reads on
RecvOther ==
    /\ pc = "recv" /\ ws = "open" /\ Running
    /\ msgs' = msgs + 1
    /\ UNCHANGED apiVars
    /\ UNCHANGED <<pc, ws, cancel, exc, windowVars, statVars, payload, subVars,
                   received, bcastVars>>

\* a message on which lines 99-103 raise: json.loads (JSONDecodeError), "p" in data
\* on a non-container (TypeError), float(data["p"]) (ValueError), data["q"]
\* (KeyError).  All happen before price_history.append
BadKinds == {"bad_json", "bad_price", "no_q"}

ErrorOf(kind) ==
    IF kind = "bad_json" THEN "JSONDecodeError"
    ELSE IF kind = "bad_price" THEN "ValueError"
    ELSE "KeyError"

RecvBad(kind) ==
    /\ pc = "recv" /\ ws = "open" /\ Running
    /\ msgs' = msgs + 1
    /\ exc' = ErrorOf(kind)
    /\ pc' = AfterRaise(ErrorOf(kind), "recv")
    /\ ws' = WsAfterRaise(ErrorOf(kind), "recv", ws)
    /\ UNCHANGED apiVars
    /\ UNCHANGED <<cancel, windowVars, statVars, payload, subVars, received, bcastVars>>

\* ws.recv() on a connection that has dropped raises ConnectionClosed
RecvClosed ==
    /\ pc = "recv" /\ ws = "dropped" /\ Running
    /\ exc' = "ConnectionClosed"
    /\ pc' = AfterRaise("ConnectionClosed", "recv")
    /\ ws' = WsAfterRaise("ConnectionClosed", "recv", ws)
    /\ UNCHANGED apiVars
    /\ UNCHANGED <<cancel, msgs, windowVars, statVars, payload, subVars, received,
                   bcastVars>>

\* await asyncio.sleep(5) returns: back to the top of the while loop
Wake ==
    /\ pc = "sleep" /\ Running
    /\ pc' = "recv"
    /\ exc' = "none"
    /\ UNCHANGED apiVars
    /\ UNCHANGED <<ws, cancel, msgs, windowVars, statVars, payload, subVars,
                   received, bcastVars>>

\* await connection.send_json(message) returns; the for loop goes on
SendOK ==
    /\ pc = "send" /\ Running
    /\ client[conn] = "open"
    /\ received' = [received EXCEPT ![conn] = Append(@, payload)]
    /\ IF ForHasNext(active_connections, idx)
       THEN /\ idx' = ForNextIndex(idx)
            /\ conn' = active_connections[idx']
            /\ UNCHANGED <<pc, bstate>>
       ELSE /\ conn' = 0
            /\ bstate' = "returned"
            /\ pc' = "recv"
            /\ UNCHANGED idx
    /\ UNCHANGED apiVars
    /\ UNCHANGED <<ws, cancel, msgs, exc, windowVars, statVars, payload, subVars,
                   bsubs, bfail>>

\* await connection.send_json(message) raises on a closed transport; broadcast has
\* no handler, so the exception reaches the try of listen_to_crypto_market
SendFail ==
    /\ pc = "send" /\ Running
    /\ client[conn] \in {"closed", "done"}
    /\ bfail' = conn
    /\ bstate' = "raised"
    /\ conn' = 0
    /\ exc' = "RuntimeError"
    /\ pc' = AfterRaise("RuntimeError", "send")
    /\ ws' = WsAfterRaise("RuntimeError", "send", ws)
    /\ UNCHANGED apiVars
    /\ UNCHANGED <<cancel, msgs, windowVars, statVars, payload, subVars,
                   received, idx, bsubs>>

\* lifespan, after the yield: task.cancel(); a finished task ignores it
Cancel ==
    /\ cancel = "none"
    /\ cancel' = IF pc = "crashed" THEN "ignored" ELSE "pending"
    /\ UNCHANGED apiVars
    /\ UNCHANGED <<pc, ws, msgs, exc, windowVars, statVars, payload, subVars,
                   received, bcastVars>>

\* the event loop throws CancelledError into the task at the await it is suspended in
DeliverCancel ==
    /\ cancel = "pending"
    /\ pc \in {"connect", "recv", "send", "sleep"}
    /\ cancel' = "delivered"
    /\ pc' = AfterRaise("CancelledError", pc)
    /\ ws' = WsAfterRaise("CancelledError", pc, ws)
    /\ bstate' = IF pc = "send" THEN "raised" ELSE bstate
    /\ conn' = 0
    /\ exc' = "CancelledError"
    /\ UNCHANGED apiVars
    /\ UNCHANGED <<msgs, windowVars, statVars, payload, subVars, received,
                   idx, bsubs, bfail>>

\* websocket_endpoint: await manager.connect(websocket)
connect(s) ==
    /\ client[s] = "new"
    /\ client' = [client EXCEPT ![s] = "open"]
    /\ active_connections' = Append(active_connections, s)
    /\ UNCHANGED apiVars
    /\ UNCHANGED <<feedVars, exc, windowVars, statVars, payload, received, bcastVars>>

\* the client stops reading: its outbound buffer fills and writes to it block
ClientStall(s) ==
    /\ client[s] = "open"
    /\ client' = [client EXCEPT ![s] = "full"]
    /\ UNCHANGED apiVars
    /\ UNCHANGED <<feedVars, exc, windowVars, statVars, payload, active_connections,
                   received, bcastVars>>

\* the client reads again
ClientDrain(s) ==
    /\ client[s] = "full"
    /\ client' = [client EXCEPT ![s] = "open"]
    /\ UNCHANGED apiVars
    /\ UNCHANGED <<feedVars, exc, windowVars, statVars, payload, active_connections,
                   received, bcastVars>>

\* the client goes away: its transport is closed
ClientClose(s) ==
    /\ client[s] \in {"open", "full"}
    /\ client' = [client EXCEPT ![s] = "closed"]
    /\ UNCHANGED apiVars
    /\ UNCHANGED <<feedVars, exc, windowVars, statVars, payload, active_connections,
                   received, bcastVars>>

\* websocket_endpoint: receive_text raises WebSocketDisconnect;
\* manager.disconnect(websocket)
disconnect(s) ==
    /\ client[s] = "closed"
    /\ client' = [client EXCEPT ![s] = "done"]
    /\ active_connections' = ListRemove(active_connections, s)
    /\ UNCHANGED apiVars
    /\ UNCHANGED <<feedVars, exc, windowVars, statVars, payload, received, bcastVars>>

\* manager.disconnect(s) called for any handle, registered or not
DisconnectCall(s) ==
    /\ active_connections' = ListRemove(active_connections, s)
    /\ dcall' = [conn |-> s, before |-> active_connections, after |-> active_connections',
                 raised |-> RemoveRaises(active_connections, s)]
    /\ UNCHANGED <<limiterVars, tradeVars>>
    /\ UNCHANGED <<feedVars, exc, windowVars, statVars, payload, client, received, bcastVars>>

(***************************************************************************)
(* SimpleRateLimiter (src/backend/rate_limiter.py).  Timestamps are whole   *)
(* numbers of time units.                                                  *)
(***************************************************************************)
\* the list stored for ip; an IP that is not a key has no history
HistoryOf(d, ip) == IF ip \in DOMAIN d THEN d[ip] ELSE <<>>

\* (current_time - t) < self.time_window
InWindow(current_time, t) == current_time - t < time_window

\* valid_history = [t for t in history if (current_time - t) < self.time_window]
ValidHistory(history, current_time) ==
    SelectSeq(history, LAMBDA t : InWindow(current_time, t))

\* faulty variant: if len(valid_history) > self.max_calls
OverLimit_Exclusive(valid_history) == Len(valid_history) > max_calls

\* if len(valid_history) >= self.max_calls
OverLimit(valid_history) == Len(valid_history) >= max_calls

\* limiter(request) with request.client.host = client_ip
LimiterCall(client_ip) ==
    LET current_time == clock
        \* if client_ip not in self.client_history: self.client_history[client_ip] = []
        known == [ip \in DOMAIN client_history \cup {client_ip} |->
                      HistoryOf(client_history, ip)]
        history == known[client_ip]
        valid_history == ValidHistory(history, current_time)
        call == [ip |-> client_ip, at |-> current_time, status |-> 0,
                 before |-> client_history, log |-> admitted[client_ip]]
    IN  /\ IF OverLimit(valid_history)
           THEN \* raise HTTPException(status_code=429)
                /\ client_history' = known
                /\ verdict' = [call EXCEPT !.status = 429]
                /\ UNCHANGED admitted
           ELSE \* valid_history.append(current_time); store; return True
                /\ client_history' =
                       [known EXCEPT ![client_ip] = Append(valid_history, current_time)]
                /\ admitted' = [admitted EXCEPT ![client_ip] = Append(@, current_time)]
                /\ verdict' = [call EXCEPT !.status = 200]
        /\ UNCHANGED <<clock, dcall, tradeVars>>
        /\ UNCHANGED <<feedVars, exc, windowVars, statVars, payload, subVars, received,
                       bcastVars>>

\* time passes
ClockTick ==
    /\ clock < MaxTime
    /\ clock' = clock + 1
    /\ UNCHANGED <<client_history, admitted, verdict, dcall, tradeVars>>
    /\ UNCHANGED <<feedVars, exc, windowVars, statVars, payload, subVars, received,
                   bcastVars>>

(***************************************************************************)
(* execute_trade.  Money is counted in tenths of a dollar and coins in     *)
(* tenths of a coin, so that price * amount is price * TradeAmount; the    *)
(* float64 subtraction of a smaller from a larger number is never negative,*)
(* so the signs are those of the code.                                     *)
(***************************************************************************)
\* cost = price * amount; revenue = price * amount
Cost(price) == price * TradeAmount

\* if portfolio["usd"] < cost
InsufficientFunds(type, price) == type = "BUY" /\ portfolio.usd < Cost(price)

\* if portfolio["btc"] < amount
InsufficientBtc(type) == type = "SELL" /\ portfolio.btc < TradeAmount

\* TradeRecord(type=type, price=price, amount=amount)
TradeRecord(type, price) == [type |-> type, price |-> price, amount |-> TradeAmount]

\* the sequence q without its i-th element
Without(q, i) == SubSeq(q, 1, i - 1) \o SubSeq(q, i + 1, Len(q))

\* POST /trade/execute?type=..&price=..: the handler up to `await db.commit()`.
\* There is no await in it, so no other request runs in between.
execute_trade(type, price) ==
    LET req == [type |-> type, price |-> price, detail |-> "accepted",
                before |-> portfolio, records |-> Len(session) + Len(trades)]
    IN  /\ Len(session) + Len(trades) < MaxTrades
        /\ IF InsufficientFunds(type, price)
           THEN /\ response' = [req EXCEPT !.detail = "Insufficient Funds"]
                /\ UNCHANGED <<portfolio, session, trades>>
           ELSE IF InsufficientBtc(type)
           THEN /\ response' = [req EXCEPT !.detail = "Insufficient BTC"]
                /\ UNCHANGED <<portfolio, session, trades>>
           ELSE /\ portfolio' =
                       IF type = "BUY"
                       THEN [usd |-> portfolio.usd - Cost(price),
                             btc |-> portfolio.btc + TradeAmount]
                       ELSE IF type = "SELL"
                       THEN [usd |-> portfolio.usd + Cost(price),
                             btc |-> portfolio.btc - TradeAmount]
                       ELSE portfolio
                /\ session' = Append(session, TradeRecord(type, price))
                /\ response' = req
                /\ UNCHANGED trades
        /\ UNCHANGED <<dcall, limiterVars>>
        /\ UNCHANGED <<feedVars, exc, windowVars, statVars, payload, subVars, received,
                       bcastVars>>

\* await db.commit() of one of the requests in flight completes: its record is a row
TradeCommit(i) ==
    /\ i \in DOMAIN session
    /\ trades' = Append(trades, session[i])
    /\ session' = Without(session, i)
    /\ UNCHANGED <<portfolio, response, dcall, limiterVars>>
    /\ UNCHANGED <<feedVars, exc, windowVars, statVars, payload, subVars, received,
                   bcastVars>>

\* calculate_anomaly(price) called on its own, on the window as it is
CallAnomaly(price) ==
    /\ current_price' = price
    /\ stats' = calculate_anomaly(price_history, price)
    /\ caller' = "call"
    /\ UNCHANGED apiVars
    /\ UNCHANGED <<feedVars, exc, windowVars, payload, subVars, received, bcastVars>>

(***************************************************************************)
(* Spec: the listener, the broadcast and the websocket clients.            *)
(***************************************************************************)
MainTick ==
    \E price \in MainPrices, qty \in Quantities : msgs < MaxMsgs /\ RecvTick(price, qty)

MainOther == msgs < MaxMsgs /\ RecvOther

MainBad == \E kind \in BadKinds : msgs < MaxMsgs /\ RecvBad(kind)

\* the steps the listener task takes by itself
ListenerNext ==
    \/ ConnectOK
    \/ ConnectFail
    \/ MainTick
    \/ MainOther
    \/ MainBad
    \/ RecvClosed
    \/ Wake
    \/ SendOK
    \/ SendFail

ClientNext ==
    \E s \in Subs :
        \/ connect(s)
        \/ ClientStall(s)
        \/ ClientDrain(s)
        \/ ClientClose(s)
        \/ disconnect(s)

Next ==
    \/ ListenerNext
    \/ UpstreamDrop
    \/ Cancel
    \/ DeliverCancel
    \/ ClientNext

Spec == Init /\ [][Next]_vars

(***************************************************************************)
(* SpecClassify: ticks and direct calls of calculate_anomaly, no clients.  *)
(***************************************************************************)
ClassifyTick ==
    \E price \in ClassifyPrices, qty \in Quantities :
        /\ msgs < MaxClassifyTicks
        /\ Changes(Append(pushed, price)) <= MaxChanges
        /\ RecvTick(price, qty)

ClassifyCall == \E price \in CallPrices : CallAnomaly(price)

NextClassify ==
    \/ ConnectOK
    \/ ClassifyTick
    \/ ClassifyCall

SpecClassify == Init /\ [][NextClassify]_vars

(***************************************************************************)
(* SpecWindow: a long run of ticks, no clients.                            *)
(***************************************************************************)
WindowTick ==
    \E price \in WindowPrices, qty \in Quantities :
        /\ msgs < MaxWindowTicks
        /\ (msgs % WindowRun # 0 => price = pushed[Len(pushed)])
        /\ RecvTick(price, qty)

NextWindow ==
    \/ ConnectOK
    \/ WindowTick

SpecWindow == Init /\ [][NextWindow]_vars

(***************************************************************************)
(* SpecBroadcast: one broadcast among clients that connect and leave.      *)
(***************************************************************************)
InitBroadcast == InitListener /\ InitManager(BcastSubs) /\ InitLimiter /\ InitTrade

BcastTick ==
    \E price \in MainPrices, qty \in Quantities :
        msgs < MaxBcastMsgs /\ RecvTick(price, qty)

BcastClientNext ==
    \E s \in BcastSubs :
        \/ connect(s)
        \/ ClientClose(s)
        \/ disconnect(s)

NextBroadcast ==
    \/ ConnectOK
    \/ BcastTick
    \/ SendOK
    \/ SendFail
    \/ Wake
    \/ BcastClientNext

SpecBroadcast == InitBroadcast /\ [][NextBroadcast]_vars

(***************************************************************************)
(* SpecManager: connect and disconnect called on the manager in any order. *)
(***************************************************************************)
NextManager ==
    \E s \in BcastSubs :
        \/ connect(s)
        \/ DisconnectCall(s)

SpecManager == InitBroadcast /\ [][NextManager]_vars

(***************************************************************************)
(* SpecLive: the whole application as in Spec, with the scheduling of the  *)
(* event loop: task.cancel() arranges for CancelledError to be thrown into *)
(* the task at the await where it is suspended, and the loop runs that     *)
(* step (asyncio.run cancels and awaits the remaining tasks at exit).      *)
(***************************************************************************)
LiveTick ==
    \E price \in MainPrices, qty \in Quantities :
        msgs < MaxLiveMsgs /\ RecvTick(price, qty)

LiveBad == \E kind \in BadKinds : msgs < MaxLiveMsgs /\ RecvBad(kind)

LiveListenerNext ==
    \/ ConnectOK
    \/ ConnectFail
    \/ LiveTick
    \/ LiveBad
    \/ RecvClosed
    \/ Wake
    \/ SendOK
    \/ SendFail

LiveClientNext ==
    \E s \in LiveSubs :
        \/ connect(s)
        \/ ClientStall(s)
        \/ ClientDrain(s)
        \/ ClientClose(s)
        \/ disconnect(s)

NextLive ==
    \/ LiveListenerNext
    \/ UpstreamDrop
    \/ Cancel
    \/ DeliverCancel
    \/ LiveClientNext

SpecLive == Init /\ [][NextLive]_vars /\ WF_vars(DeliverCancel)

(***************************************************************************)
(* SpecLimiter: requests of several client IPs, one after the other, as    *)
(* time passes.                                                            *)
(***************************************************************************)
NextLimiter ==
    \/ ClockTick
    \/ \E ip \in Ips : LimiterCall(ip)

SpecLimiter == Init /\ [][NextLimiter]_vars

(***************************************************************************)
(* SpecTrade: trade requests, several of them in flight at a time.         *)
(***************************************************************************)
TradeRequest == \E type \in TradeTypes, price \in TradePrices : execute_trade(type, price)

TradeCommitted == \E i \in 1..MaxTrades : TradeCommit(i)

NextTrade ==
    \/ TradeRequest
    \/ TradeCommitted

SpecTrade == Init /\ [][NextTrade]_vars

(***************************************************************************)
(* SpecWhale: a few ticks of large and small volume, sent to one client.   *)
(***************************************************************************)
WhaleTick ==
    \E price \in WhalePrices, qty \in WhaleQuantities :
        msgs < MaxWhaleTicks /\ RecvTick(price, qty)

NextWhale ==
    \/ ConnectOK
    \/ WhaleTick
    \/ SendOK
    \/ \E s \in LiveSubs : connect(s)

SpecWhale == Init /\ [][NextWhale]_vars

(***************************************************************************)
(* SpecFloat: a run of ticks that all carry the same price, written with   *)
(* cents; no clients.                                                      *)
(***************************************************************************)
FloatTick ==
    \E text \in F64Texts, qty \in Quantities :
        /\ msgs < MaxFloatTicks
        /\ (pushed # <<>> => F64Parse(text) = pushed[Len(pushed)])
        /\ RecvTickF64(text, qty)

NextFloat ==
    \/ ConnectOK
    \/ FloatTick

SpecFloat == Init /\ [][NextFloat]_vars

(***************************************************************************)
(* Properties.                                                             *)
(***************************************************************************)

\* C1: when a send fails during a broadcast, the broadcast still returns to its
\* caller without raising, the failing connection is no longer in
\* active_connections, and every other connection of that broadcast that is still
\* registered and open has received the message.
C1_FailedSendIsolated ==
    (bstate \in {"returned", "raised"} /\ bfail # 0) =>
        /\ bstate = "returned"
        /\ bfail \notin Range(active_connections)
        /\ \A s \in Range(bsubs) \ {bfail} :
               (s \in Range(active_connections) /\ client[s] = "open")
                   => payload \in Range(received[s])

\* C2: after the upstream connection has dropped, the listener leaves its backoff
\* sleep to read again only on a connection it has re-established.
C2_ReconnectsAfterDrop ==
    [][(pc = "sleep" /\ pc' = "recv" /\ ws = "dropped") => ws' = "open"]_vars

\* C3: without a shutdown signal the listener task never ends, whatever upstream
\* error occurs (it neither returns nor lets an exception out).
C3_NeverTerminates ==
    cancel = "none" => pc \notin {"crashed", "cancelled"}

\* C4: a connection whose send cannot complete (full outbound buffer) does not
\* stall the listener: while broadcast is at such a connection the task can still
\* take a step of its own.
C4_StalledSubscriberDoesNotStall ==
    (pc = "send" /\ cancel = "none" /\ client[conn] = "full") => ENABLED ListenerNext

\* C5: a delivered cancellation ends the task (it is not turned into a backoff by
\* the except handler), and afterwards the task neither reads, processes a tick,
\* sends nor sleeps.
C5_CancellationNotSwallowed ==
    [][cancel' = "delivered" =>
           /\ pc' = "cancelled"
           /\ cancel = "delivered" =>
                  UNCHANGED <<pc, ws, msgs, exc, price_history, stats, payload, received>>]_vars

\* C5 witness: the cancellation was delivered while broadcast awaited a send.
C5_CancelledInSend ==
    /\ cancel = "delivered"
    /\ pc = "cancelled"
    /\ bstate = "raised"
    /\ bfail = 0
    /\ ws = "closed"

\* C6: price_history never holds more than MaxLen prices and is exactly the
\* min(MaxLen, pushed) most recently appended prices, in arrival order.
C6_WindowIsLastN ==
    /\ Len(price_history) <= MaxLen
    /\ price_history = LastN(pushed, Min(MaxLen, Len(pushed)))

\* C6 witness: more than MaxLen prices were appended and the eviction changed
\* what the window holds.
C6_Evicted ==
    /\ Len(pushed) > MaxLen
    /\ Len(price_history) = MaxLen
    /\ price_history # SubSeq(pushed, 1, MaxLen)
    /\ price_history[1] # price_history[MaxLen]

\* C7: each client receives the broadcast messages in the order of the broadcast
\* calls (the timestamp counts the calls), none of them twice.
C7_FifoPerSubscriber ==
    \A s \in Subs :
        \A i, j \in DOMAIN received[s] :
            i < j => received[s][i].timestamp < received[s][j].timestamp

\* C7 witness: two broadcasts reached a client that is still registered.
C7_TwoReceived ==
    \E s \in Subs :
        /\ s \in Range(active_connections)
        /\ Len(received[s]) >= 2
        /\ received[s][1].timestamp = 1
        /\ received[s][2].timestamp = 2

\* twenty prices of 100
C8_Flat == [i \in 1..MinSamples |-> 100]

\* C8 as stated: a tick of 300 that arrives when the window holds twenty prices
\* of 100 is classified STABLE with z_score 0 and mean_price 100.
C8_TickClassifiedStable ==
    (caller = "tick" /\ current_price = 300 /\ price_history = Append(C8_Flat, 300))
        => stats = [status |-> "STABLE", z_score |-> 0, mean_price |-> 100 * Hundredths]

\* C8 amended: calculate_anomaly(300) evaluated on a window of twenty prices of 100
\* returns STABLE, z_score 0, mean_price 100 (no division); a tick of 300 arriving
\* at that window is appended first and classified over the 21 prices as
\* PUMP_DETECTED.
C8_FlatWindowStable ==
    /\ (caller # "none" /\ current_price = 300 /\ price_history = C8_Flat)
           => stats = [status |-> "STABLE", z_score |-> 0, mean_price |-> 100 * Hundredths]
    /\ (caller = "tick" /\ current_price = 300 /\ price_history = Append(C8_Flat, 300))
           => stats.status = "PUMP_DETECTED"

\* C8 witness: calculate_anomaly(300) was evaluated on twenty prices of 100.
C8_FlatWindowCalled ==
    /\ caller = "call"
    /\ current_price = 300
    /\ price_history = C8_Flat
    /\ stats.status = "STABLE"

\* C9: with fewer than 20 prices in the window calculate_anomaly returns
\* CALIBRATING, z_score 0 and mean_price = current_price; with 20 or more it never
\* returns CALIBRATING.
C9_CalibratingIffShort ==
    caller # "none" =>
        IF Len(price_history) < 20
        THEN stats = [status |-> "CALIBRATING", z_score |-> 0,
                      mean_price |-> Hundredths * current_price]
        ELSE stats.status # "CALIBRATING"

\* C9 witness: a call on a window of 19 prices, with a price far from them.
C9_NineteenCalibrating ==
    /\ caller = "call"
    /\ Len(price_history) = 19
    /\ current_price = 300
    /\ price_history[1] = 100
    /\ stats.status = "CALIBRATING"

\* sum of the squares of w[1..i]
RECURSIVE C10_SumSqTo(_, _)
C10_SumSqTo(w, i) == IF i = 0 THEN 0 ELSE w[i] * w[i] + C10_SumSqTo(w, i - 1)

\* n^2 times the population variance of w, from the two moments: n Q - S^2
C10_VarN2(w) == Len(w) * C10_SumSqTo(w, Len(w)) - SumTo(w, Len(w)) * SumTo(w, Len(w))

\* (p - mean) / stdDev > 2, i.e. n p - S > 2 sqrt(n Q - S^2)
C10_ZGt2(w, p) ==
    LET num == Len(w) * p - SumTo(w, Len(w))
    IN  num > 0 /\ num * num > 4 * C10_VarN2(w)

\* (p - mean) / stdDev < -2
C10_ZLtMinus2(w, p) ==
    LET num == Len(w) * p - SumTo(w, Len(w))
    IN  num < 0 /\ num * num > 4 * C10_VarN2(w)

\* mean 100 and stdDev 10
C10_Mean100Std10(w) ==
    /\ SumTo(w, Len(w)) = 100 * Len(w)
    /\ C10_VarN2(w) = 10 * 10 * Len(w) * Len(w)

\* C10: on a window of at least 20 prices with non-zero standard deviation the
\* status is PUMP_DETECTED exactly when the z-score is above 2, DUMP_DETECTED
\* exactly when it is below -2, NORMAL otherwise (so at exactly 2 or -2); with
\* mean 100 and stdDev 10, price 125 is PUMP_DETECTED and price 120 is NORMAL.
C10_Thresholds ==
    (caller # "none" /\ Len(price_history) >= 20 /\ C10_VarN2(price_history) # 0) =>
        /\ stats.status = "PUMP_DETECTED" <=> C10_ZGt2(price_history, current_price)
        /\ stats.status = "DUMP_DETECTED" <=> C10_ZLtMinus2(price_history, current_price)
        /\ stats.status = "NORMAL" <=>
               /\ ~C10_ZGt2(price_history, current_price)
               /\ ~C10_ZLtMinus2(price_history, current_price)
        /\ C10_Mean100Std10(price_history) =>
               /\ current_price = 125 => stats.status = "PUMP_DETECTED"
               /\ current_price = 120 => stats.status = "NORMAL"
               /\ current_price = 80 => stats.status = "NORMAL"
               /\ current_price = 75 => stats.status = "DUMP_DETECTED"

\* C10 witness: mean 100, stdDev 10, price 125.
C10_PumpAt125 ==
    /\ caller = "call"
    /\ Len(price_history) = 20
    /\ C10_Mean100Std10(price_history)
    /\ current_price = 125
    /\ stats.status = "PUMP_DETECTED"
    /\ stats.z_score = 250

\* C12: a send that fails during a broadcast does not reach the listener's except
\* handler and does not put the listener into its 5 s sleep: the loop reads the
\* next message at once.
C12_DeliveryFailureLeavesLoopAlone ==
    bfail # 0 => ~(exc = "RuntimeError" /\ pc = "sleep")

\* C14: outside shutdown, once the listener is back at ws.recv() or in its sleep,
\* the last tick appended to price_history has been classified and its broadcast
\* has returned (it was not abandoned by an exception).
C14_NoPartialTick ==
    (cancel = "none" /\ caller = "tick" /\ pc \in {"recv", "sleep"}) =>
        /\ stats = calculate_anomaly(price_history, current_price)
        /\ payload.stats = stats
        /\ bstate = "returned"

\* C15: a message that is valid JSON but has no "p", or has "p" and no "q", is
\* ignored: the window, the last payload and what the clients received are
\* unchanged, no exception is raised and the listener stays at ws.recv().
C15_NonTickIgnored ==
    [][(MainOther \/ (msgs < MaxMsgs /\ RecvBad("no_q"))) =>
           UNCHANGED <<pc, exc, price_history, pushed, payload, received, bstate>>]_vars

\* how many times client s was sent the message of the last broadcast
C13_Copies(s) == Cardinality({i \in DOMAIN received[s] : received[s][i] = payload})

\* C13: when a broadcast has returned, every client that was registered when it
\* was called and is still registered (so was registered all along, a handle is
\* never registered twice) has been sent its message exactly once, whatever
\* connects and disconnects happened while it awaited its sends; and no client
\* has been sent it twice.
C13_RegisteredThroughoutGetsOne ==
    bstate = "returned" =>
        /\ \A s \in Range(bsubs) \cap Range(active_connections) : C13_Copies(s) = 1
        /\ \A s \in DOMAIN received : C13_Copies(s) <= 1

\* C16: manager.disconnect is idempotent: called for a handle that is not in
\* active_connections it raises nothing and leaves the list as it was, and after
\* any call a second call for the same handle raises nothing and changes nothing.
C16_DisconnectIdempotent ==
    dcall.conn # 0 =>
        /\ dcall.conn \notin Range(dcall.before) =>
               (dcall.raised = "none" /\ dcall.after = dcall.before)
        /\ RemoveRaises(dcall.after, dcall.conn) = "none"
        /\ ListRemove(dcall.after, dcall.conn) = dcall.after

\* the task has ended and holds no upstream connection
C17_Stopped == pc \in {"cancelled", "crashed"} /\ ws \in {"none", "closed"}

\* C17: once lifespan has called task.cancel(), the listener task eventually has
\* ended with the upstream connection released, at whichever await it was
\* suspended: ws.recv(), a send_json of broadcast (even to a client that does not
\* read), asyncio.sleep(5), or websockets.connect.
C17_CancelledTaskStops ==
    /\ (cancel # "none") ~> C17_Stopped
    /\ \A at \in {"connect", "recv", "send", "sleep"} :
           (cancel = "pending" /\ pc = at) ~> C17_Stopped

\* C17 witness: the task was cancelled after a failed broadcast had sent it to
\* sleep, and it has ended with the connection it had opened closed.
C17_StoppedAndReleased ==
    /\ cancel = "delivered"
    /\ pc = "cancelled"
    /\ ws = "closed"
    /\ bstate = "raised"
    /\ bfail # 0

\* the admitted requests of log from its i-th on that fall less than time_window
\* after the i-th
C19_Within(log, i) ==
    Cardinality({j \in DOMAIN log : j >= i /\ log[j] - log[i] < time_window})

\* the requests of log that are less than time_window before the time t
C19_Recent(log, t) == Cardinality({j \in DOMAIN log : t - log[j] < time_window})

\* C19: with time that never runs backwards, (1) no client IP has more than
\* max_calls admitted requests in any interval shorter than time_window; (2) a
\* rejected request (429) adds no timestamp and leaves every stored history as it
\* was; (3) the outcome of a request depends only on the requests admitted from
\* its own IP (it is admitted exactly when fewer than max_calls of them are less
\* than time_window old), and it leaves the histories of the other IPs alone.
C19_RateLimited ==
    /\ \A ip \in Ips : \A i \in DOMAIN admitted[ip] :
           C19_Within(admitted[ip], i) <= max_calls
    /\ verdict.status = 429 =>
           /\ admitted[verdict.ip] = verdict.log
           /\ \A ip \in Ips :
                  HistoryOf(client_history, ip) = HistoryOf(verdict.before, ip)
    /\ verdict.status # 0 =>
           /\ verdict.status = 200 <=> C19_Recent(verdict.log, verdict.at) < max_calls
           /\ verdict.status = 200 =>
                  admitted[verdict.ip] = Append(verdict.log, verdict.at)
           /\ \A ip \in Ips \ {verdict.ip} :
                  HistoryOf(client_history, ip) = HistoryOf(verdict.before, ip)

\* C19 witness: an IP that has used up its max_calls is rejected at a time when
\* another IP has just been admitted, and had been admitted itself before its
\* current window.
C19_RejectedAmongOthers ==
    /\ verdict.status = 429
    /\ C19_Recent(verdict.log, verdict.at) = max_calls
    /\ Len(verdict.log) > max_calls
    /\ \E ip \in Ips \ {verdict.ip} :
           /\ admitted[ip] # <<>>
           /\ admitted[ip][Len(admitted[ip])] = verdict.at

\* C20: after any sequence of BUY and SELL requests, interleaved or not, neither
\* balance of the portfolio is negative; and after a request that was rejected
\* with Insufficient Funds or Insufficient BTC both balances are what they were
\* before it and no trade record was added.
C20_LedgerNeverNegative ==
    /\ portfolio.usd >= 0
    /\ portfolio.btc >= 0
    /\ response.detail \in {"Insufficient Funds", "Insufficient BTC"} =>
           /\ portfolio = response.before
           /\ Len(session) + Len(trades) = response.records

\* the message built for the last tick and every message a client was sent
C18_Published == {payload} \cup UNION {Range(received[s]) : s \in DOMAIN received}

\* C18: in every published message volume is price * quantity and is_whale is
\* true exactly when volume > 50000: true at 60000, false at 49999 and at 50000.
C18_WhaleIffAbove50000 ==
    \A m \in C18_Published :
        /\ \E qty \in WhaleQuantities \cup {0} : m.volume = m.price * qty
        /\ m.is_whale <=> m.volume > 50000
        /\ m.volume = 60000 => m.is_whale
        /\ m.volume = 49999 => ~m.is_whale
        /\ m.volume = 50000 => ~m.is_whale

\* C18 witness: a client was sent a tick of volume exactly 50000 (25000 * 2)
\* without the flag and a tick of volume 60000 with it.
C18_BoundaryPublished ==
    \E s \in DOMAIN received : \E i, j \in DOMAIN received[s] :
        /\ received[s][i].price = 25000
        /\ received[s][i].volume = 50000
        /\ ~received[s][i].is_whale
        /\ received[s][j].volume = 60000
        /\ received[s][j].is_whale

\* C11: when the window holds 20 or more prices that are all the same and the
\* price just classified is that same value, the result is STABLE with z_score 0
\* and mean_price that value.
C11_IdenticalPricesStable ==
    (/\ caller = "tick"
     /\ Len(price_history) >= 20
     /\ \A i \in DOMAIN price_history : price_history[i] = current_price) =>
        /\ stats.status = "STABLE"
        /\ stats.z_score = 0
        /\ stats.mean_price = F64Hundredths(current_price)

====
